---------------------------- MODULE Spec2Model ----------------------------
(***************************************************************************)
(* A model of src/choice.rs of `choose`: the range descriptor Choice and   *)
(* the three selection strategies of Choice::print_choice_generic          *)
(* (forward, reverse, negative-indexed), one action per function entry and *)
(* one per loop iteration.  A token is an opaque value; the writer is a    *)
(* log of (token, has_more) pairs in the order write_choice is called.     *)
(***************************************************************************)
EXTENDS Integers, Sequences, FiniteSets

\* ------------------------------------------------------------------ bounds

\* longest line, in tokens
MaxLen == 6
\* largest magnitude of a start or end typed by the user
MaxIdx == 6

\* isize::max_value(), the "no limit" value of print_choice_loop and the end
\* of an open range.  TLC's integers are 32 bits wide, so the model uses
\* 2^31 - 1 where the program has 2^63 - 1; no arithmetic of the model comes
\* near either.
isize_max_value == 2147483647

\* the opaque token values
Token == {"a", "b"}

\* every line of at most MaxLen tokens
Lines == UNION {[1..n -> Token] : n \in 0..MaxLen}

Starts == (0 - MaxIdx)..MaxIdx
Ends == Starts \cup {isize_max_value}

VARIABLES
    line,       \* the tokens of the input line (the token source's content)
    choices,    \* config.opt.choice: the Choice descriptors applied to the line
    c,          \* index in choices of the Choice being printed
    pc,         \* where the running print_choice is
    iter,       \* how many tokens the token source has yielded
    max_items,  \* print_choice_loop_max_items' max_items
    i,          \* the loop counter of the forward loop and of the reverse collect loop
    vec,        \* print_choice_negative's vec
    start_end,  \* print_choice_negative's (start, end)
    stack,      \* print_choice_reverse's stack
    k,          \* how many items the emitting iterator (a slice or the stack) has yielded
    handle,     \* what write_choice was called with for this Choice, in order
    written     \* the finished handles of the earlier Choices

vars == <<line, choices, c, pc, iter, max_items, i, vec, start_end, stack, k,
          handle, written>>

\* ----------------------------------------------------------------- helpers

\* std::cmp::min
min(a, b) == IF a < b THEN a ELSE b

\* abs forgotten: the signed value itself
abs_forgotten(n) == n

\* isize::abs
abs(n) == IF n < 0 THEN 0 - n ELSE n

\* Option: None is <<>>, Some(v) is <<v>>
None == <<>>
Some(v) == <<v>>

\* usize::checked_sub
checked_sub(a, b) == IF a >= b THEN Some(a - b) ELSE None

\* Choice::new
Choice_new(start, end) ==
    [start |-> start, end |-> end,
     negative_index |-> (start < 0 \/ end < 0),
     reversed |-> (end < start)]

is_reverse_range(ch) == ch.reversed

\* the flag read from start alone
has_negative_index_start_only(ch) == ch.start < 0

has_negative_index(ch) == ch.negative_index

\* the Choice being printed
Cur == choices[c]

\* nth taken for a count: one item too few is skipped
nth_short(pos, n, len) == min(pos + n, len)

\* Iterator::nth(n) on a source of len items that has yielded pos of them:
\* consumes n + 1 items, or what is left
nth(pos, n, len) == min(pos + n + 1, len)

\* Writeable / WriteReceiver::write_choice: the writer receives the token and
\* whether a separator follows it
write_choice(h, s, has_more) == Append(h, [tok |-> s, has_more |-> has_more])

\* the budget of an exclusive end
forward_range_exclusive(ch) == ch.end - ch.start - 1

\* the forward strategy's item budget: self.end.checked_sub(self.start).unwrap()
forward_range(ch) == ch.end - ch.start

\* has_more from the lookahead alone
loop_has_more_peek_only(pos, len, n, max) == pos < len

\* has_more of the forward loop, after next() left pos items yielded:
\* peek_iter.peek().is_some() && i != max_items
loop_has_more(pos, len, n, max) == pos < len /\ n # max

\* the break taken one iteration early
reverse_break_early(ch, n) == ch.start <= ch.end + n + 1

\* the break of the reverse collect loop: self.start <= self.end + i
reverse_break(ch, n) == ch.start <= ch.end + n

\* the stack iterated without rev()
reverse_item_forward(st, n) == st[n + 1]

\* the item stack.iter().rev() yields after n items
reverse_item(st, n) == st[Len(st) - n]

\* a negative bound resolved one too low: len - |v| - 1
resolve_bound_low(v, len) ==
    IF v >= 0 THEN Some(v) ELSE checked_sub(len, abs(v) + 1)

\* one bound of get_negative_start_end: Some(index), or None where unwrap panics
resolve_bound(v, len) ==
    IF v >= 0 THEN Some(v) ELSE checked_sub(len, abs(v))

\* get_negative_start_end: Some([start, end]), or None when an unwrap panics
get_negative_start_end(ch, v) ==
    LET s == resolve_bound(ch.start, Len(v))
        e == resolve_bound(ch.end, Len(v))
    IN IF s = None \/ e = None THEN None
       ELSE Some([start |-> s[1], end |-> e[1]])

\* the bound used without the clamp to the last index
clamp_last_missing(bound, len) == bound

\* std::cmp::min(bound, vec.len() - 1), for a non-empty vec
clamp_last(bound, len) == min(bound, len - 1)

\* whether vec[lo..hi] is in bounds (it panics otherwise)
slice_ok(lo, hi, len) == lo <= hi /\ hi <= len

\* the descending slice starting at end itself
descending_from_end(end) == end

\* the first index of the descending slice vec[end + 1..=...]
descending_from(end) == end + 1

\* the descending branch taken whatever the sign of start
descending_branch_always(ch) == TRUE

\* the test of the descending branch: self.start < 0
descending_branch(ch) == ch.start < 0

\* ------------------------------------------------------------------- state

\* the state in which the first print_choice of a line starts
InitRun ==
    /\ c = 1
    /\ pc = "generic"
    /\ iter = 0
    /\ max_items = 0
    /\ i = 0
    /\ vec = <<>>
    /\ start_end = [start |-> 0, end |-> 0]
    /\ stack = <<>>
    /\ k = 0
    /\ handle = <<>>
    /\ written = <<>>

\* one Choice, any signed start and any end, on any line
Init ==
    /\ line \in Lines
    /\ \E start \in Starts, end \in Ends : choices = <<Choice_new(start, end)>>
    /\ InitRun

\* two Choices on the same line, the second the first with its bounds swapped
\* (`choose a:b b:a`), neither bound negative
InitChoices ==
    /\ line \in Lines
    /\ \E a \in 0..MaxIdx, b \in 0..MaxIdx :
           choices = <<Choice_new(a, b), Choice_new(b, a)>>
    /\ InitRun

\* --------------------------------------------------------------- operations

\* print_choice_generic: the dispatch, and the forward strategy's skip
print_choice_generic ==
    /\ pc = "generic"
    /\ IF is_reverse_range(Cur) /\ ~has_negative_index(Cur)
       THEN /\ pc' = "reverse"
            /\ UNCHANGED <<iter, max_items>>
       ELSE IF has_negative_index(Cur)
       THEN /\ pc' = "negative"
            /\ UNCHANGED <<iter, max_items>>
       ELSE /\ iter' = IF Cur.start > 0
                       THEN nth(iter, Cur.start - 1, Len(line))
                       ELSE iter
            /\ max_items' = forward_range(Cur)
            /\ pc' = "loop"
    /\ i' = 0
    /\ UNCHANGED <<line, choices, c, vec, start_end, stack, k, handle, written>>

\* one iteration of `for i in 0..=max_items` of print_choice_loop_max_items
print_choice_loop_max_items ==
    /\ pc = "loop"
    /\ IF i > max_items
       THEN /\ pc' = "done"
            /\ UNCHANGED <<iter, i, handle>>
       ELSE IF iter < Len(line)
       THEN /\ iter' = iter + 1
            /\ handle' = write_choice(handle, line[iter + 1],
                                      loop_has_more(iter + 1, Len(line), i, max_items))
            /\ IF i = max_items
               THEN pc' = "done" /\ i' = i
               ELSE pc' = "loop" /\ i' = i + 1
       ELSE /\ pc' = "done"
            /\ UNCHANGED <<iter, i, handle>>
    /\ UNCHANGED <<line, choices, c, max_items, vec, start_end, stack, k, written>>

\* print_choice_negative up to its first write: collect the line, resolve the
\* bounds, choose the branch and take its slice
print_choice_negative ==
    /\ pc = "negative"
    /\ LET v == SubSeq(line, iter + 1, Len(line))
           se == get_negative_start_end(Cur, v)
       IN /\ vec' = v
          /\ iter' = Len(line)
          /\ IF se = None
             THEN pc' = "panic" /\ UNCHANGED <<start_end, k>>
             ELSE /\ start_end' = se[1]
                  /\ IF se[1].end > se[1].start
                     THEN \* vec.len() - 1 overflows for an empty vec; where the
                          \* build wraps instead, the slice is out of bounds
                          IF Len(v) = 0
                             \/ ~slice_ok(se[1].start, clamp_last(se[1].end, Len(v)), Len(v))
                          THEN pc' = "panic" /\ k' = k
                          ELSE pc' = "neg_asc" /\ k' = se[1].start
                     ELSE IF descending_branch(Cur)
                     THEN IF Len(v) = 0
                             \/ ~slice_ok(descending_from(se[1].end),
                                          clamp_last(se[1].start, Len(v)) + 1, Len(v))
                          THEN pc' = "panic" /\ k' = k
                          ELSE pc' = "neg_desc"
                               /\ k' = clamp_last(se[1].start, Len(v)) + 1
                     ELSE pc' = "done" /\ k' = k
    /\ UNCHANGED <<line, choices, c, max_items, i, stack, handle, written>>

\* the ascending branch: one word of the slice, then the last word
negative_ascending ==
    /\ pc = "neg_asc"
    /\ LET hi == clamp_last(start_end.end, Len(vec))
       IN IF k < hi
          THEN /\ handle' = write_choice(handle, vec[k + 1], TRUE)
               /\ k' = k + 1
               /\ pc' = "neg_asc"
          ELSE /\ handle' = write_choice(handle, vec[hi + 1], FALSE)
               /\ k' = k
               /\ pc' = "done"
    /\ UNCHANGED <<line, choices, c, iter, max_items, i, vec, start_end, stack, written>>

\* the descending branch: one word of the reversed slice, then vec[end]
negative_descending ==
    /\ pc = "neg_desc"
    /\ IF k > descending_from(start_end.end)
       THEN /\ handle' = write_choice(handle, vec[k], TRUE)
            /\ k' = k - 1
            /\ pc' = "neg_desc"
       ELSE IF start_end.end >= Len(vec)
       THEN /\ pc' = "panic"
            /\ UNCHANGED <<handle, k>>
       ELSE /\ handle' = write_choice(handle, vec[start_end.end + 1], FALSE)
            /\ k' = k
            /\ pc' = "done"
    /\ UNCHANGED <<line, choices, c, iter, max_items, i, vec, start_end, stack, written>>

\* print_choice_reverse up to its collect loop: skip the first end tokens
print_choice_reverse ==
    /\ pc = "reverse"
    /\ iter' = IF Cur.end > 0 THEN nth(iter, Cur.end - 1, Len(line)) ELSE iter
    /\ stack' = <<>>
    /\ i' = 0
    /\ pc' = "rev_collect"
    /\ UNCHANGED <<line, choices, c, max_items, vec, start_end, k, handle, written>>

\* one iteration of `for i in 0..=(self.start - self.end)`
reverse_collect ==
    /\ pc = "rev_collect"
    /\ IF i > Cur.start - Cur.end
       THEN /\ pc' = "rev_emit"
            /\ UNCHANGED <<iter, stack, i>>
       ELSE IF iter < Len(line)
       THEN /\ iter' = iter + 1
            /\ stack' = Append(stack, line[iter + 1])
            /\ IF reverse_break(Cur, i)
               THEN pc' = "rev_emit" /\ i' = i
               ELSE pc' = "rev_collect" /\ i' = i + 1
       ELSE /\ pc' = "rev_emit"
            /\ UNCHANGED <<iter, stack, i>>
    /\ k' = 0
    /\ UNCHANGED <<line, choices, c, max_items, vec, start_end, handle, written>>

\* the emitting loop without its `None => break`: it spins on the empty iterator
reverse_emit_no_break ==
    /\ pc = "rev_emit"
    /\ IF k < Len(stack)
       THEN /\ handle' = write_choice(handle, reverse_item(stack, k), k + 1 < Len(stack))
            /\ k' = k + 1
            /\ pc' = "rev_emit"
       ELSE /\ pc' = "rev_emit"
            /\ UNCHANGED <<handle, k>>
    /\ UNCHANGED <<line, choices, c, iter, max_items, i, vec, start_end, stack, written>>

\* one iteration of the emitting loop over stack.iter().rev().peekable()
reverse_emit ==
    /\ pc = "rev_emit"
    /\ IF k < Len(stack)
       THEN /\ handle' = write_choice(handle, reverse_item(stack, k), k + 1 < Len(stack))
            /\ k' = k + 1
            /\ pc' = "rev_emit"
       ELSE /\ pc' = "done"
            /\ UNCHANGED <<handle, k>>
    /\ UNCHANGED <<line, choices, c, iter, max_items, i, vec, start_end, stack, written>>

\* the caller's loop over config.opt.choice: the next Choice is printed from
\* the same line, with a fresh token source
NextChoice ==
    /\ pc = "done"
    /\ c < Len(choices)
    /\ written' = Append(written, handle)
    /\ handle' = <<>>
    /\ c' = c + 1
    /\ pc' = "generic"
    /\ iter' = 0
    /\ max_items' = 0
    /\ i' = 0
    /\ vec' = <<>>
    /\ start_end' = [start |-> 0, end |-> 0]
    /\ stack' = <<>>
    /\ k' = 0
    /\ UNCHANGED <<line, choices>>

Next ==
    \/ print_choice_generic
    \/ print_choice_loop_max_items
    \/ print_choice_negative
    \/ negative_ascending
    \/ negative_descending
    \/ print_choice_reverse
    \/ reverse_collect
    \/ reverse_emit

Spec == Init /\ [][Next]_vars

\* print_choice is synchronous: once called it runs every step it can take
SpecFair == Spec /\ WF_vars(Next)

NextChoices ==
    \/ print_choice_generic
    \/ print_choice_loop_max_items
    \/ print_choice_reverse
    \/ reverse_collect
    \/ reverse_emit
    \/ NextChoice

SpecChoices == InitChoices /\ [][NextChoices]_vars

\* ------------------------------------------------------------------ claims

\* the number of tokens of the line
L == Len(line)

\* the tokens a handle received, in order
Toks(h) == [n \in 1..Len(h) |-> h[n].tok]

Reverse(s) == [n \in 1..Len(s) |-> s[Len(s) + 1 - n]]

\* the tokens of the line at the zero-based indices lo..hi, ascending
Indices(lo, hi) == SubSeq(line, lo + 1, hi + 1)

Smaller(a, b) == IF a < b THEN a ELSE b
Larger(a, b) == IF a < b THEN b ELSE a
Magnitude(v) == IF v < 0 THEN 0 - v ELSE v

\* a bound as the spec resolves it: v when v >= 0, L - |v| when v < 0
Resolved(v) == IF v >= 0 THEN v ELSE L - Magnitude(v)

\* every negative bound of the Choice has a magnitude of at most L
MagnitudesFit == Magnitude(Smaller(Cur.start, 0)) <= L /\ Magnitude(Smaller(Cur.end, 0)) <= L

\* C1: a bounded range with 0 <= start <= end never aborts and, when it is
\* done, has emitted exactly the tokens at indices start..min(end, L-1), in
\* ascending order; nothing when start >= L.
C1_Forward ==
    (0 <= Cur.start /\ Cur.start <= Cur.end /\ Cur.end # isize_max_value) =>
        /\ pc # "panic"
        /\ pc = "done" => Toks(handle) = Indices(Cur.start, Smaller(Cur.end, L - 1))

\* range 1:3 on four tokens is done with three tokens emitted
C1_Witness ==
    /\ pc = "done" /\ Cur.start = 1 /\ Cur.end = 3 /\ L = 4
    /\ Len(handle) = 3

\* C2: a range with 0 <= end < start never aborts and, when it is done, has
\* emitted exactly the tokens at indices min(start, L-1) down to end, in
\* descending order; nothing when end >= L.
C2_Reverse ==
    (0 <= Cur.end /\ Cur.end < Cur.start) =>
        /\ pc # "panic"
        /\ pc = "done" =>
              Toks(handle) = Reverse(Indices(Cur.end, Smaller(Cur.start, L - 1)))

\* range 5:1 on four tokens (the source ends before index 5) is done with
\* the three tokens from index 1 on emitted
C2_Witness ==
    /\ pc = "done" /\ Cur.start = 5 /\ Cur.end = 1 /\ L = 4
    /\ Len(handle) = 3

\* C3: a range with a negative bound, every negative magnitude <= L, whose
\* resolved bounds satisfy e > s never aborts and, when it is done, has emitted
\* exactly the tokens at indices s..min(e, L-1), in ascending order.
C3_NegativeAscending ==
    (Cur.negative_index /\ MagnitudesFit /\ Resolved(Cur.end) > Resolved(Cur.start)) =>
        /\ pc # "panic"
        /\ pc = "done" =>
              Toks(handle) = Indices(Resolved(Cur.start),
                                     Smaller(Resolved(Cur.end), L - 1))

\* range -3:-1 on six tokens is done with three tokens emitted
C3_Witness ==
    /\ pc = "done" /\ Cur.start = 0 - 3 /\ Cur.end = 0 - 1 /\ L = 6
    /\ Len(handle) = 3

\* C4: a range with a negative start, every negative magnitude <= L, whose
\* resolved bounds satisfy e <= s never aborts and, when it is done, has
\* emitted exactly the tokens at indices s, s-1, ..., e, the one at e last.
C4_NegativeDescending ==
    (Cur.start < 0 /\ MagnitudesFit /\ Resolved(Cur.end) <= Resolved(Cur.start)) =>
        /\ pc # "panic"
        /\ pc = "done" =>
              Toks(handle) = Reverse(Indices(Resolved(Cur.end), Resolved(Cur.start)))

\* range -1:-3 on six tokens is done with three tokens emitted
C4_Witness ==
    /\ pc = "done" /\ Cur.start = 0 - 1 /\ Cur.end = 0 - 3 /\ L = 6
    /\ Len(handle) = 3

\* C5: a range with start >= 0 and a negative end of magnitude <= L whose
\* resolved bounds satisfy e <= s emits no token at any point and never aborts.
C5_NegativeEmpty ==
    (Cur.start >= 0 /\ Cur.end < 0 /\ Magnitude(Cur.end) <= L
        /\ Resolved(Cur.end) <= Cur.start) =>
        /\ pc # "panic"
        /\ handle = <<>>

\* range 5:-3 on six tokens is done with nothing emitted
C5_Witness ==
    /\ pc = "done" /\ Cur.start = 5 /\ Cur.end = 0 - 3 /\ L = 6
    /\ handle = <<>>

\* C6 as stated: the range :-k, 1 <= k <= L, yields all tokens except the last
\* k, in order.
C6_AllButLastK ==
    (Cur.start = 0 /\ Cur.end < 0 /\ Magnitude(Cur.end) <= L /\ pc = "done") =>
        Toks(handle) = Indices(0, L - Magnitude(Cur.end) - 1)

\* C6 as amended: the range :-k, 1 <= k <= L, never aborts and yields the
\* tokens at indices 0..L-k, in order (all tokens except the last k - 1), when
\* k < L, and nothing when k = L.
C6_AllButLastKMinus1 ==
    (Cur.start = 0 /\ Cur.end < 0 /\ Magnitude(Cur.end) <= L) =>
        /\ pc # "panic"
        /\ pc = "done" =>
              Toks(handle) = IF Magnitude(Cur.end) < L
                             THEN Indices(0, L - Magnitude(Cur.end))
                             ELSE <<>>

\* range :-3 on six tokens is done with four tokens emitted
C6_Witness ==
    /\ pc = "done" /\ Cur.start = 0 /\ Cur.end = 0 - 3 /\ L = 6
    /\ Len(handle) = 4

\* C7: the range -k:, 1 <= k <= L, with the unbounded end, never aborts and
\* yields exactly the last k tokens, in order.
C7_LastK ==
    (Cur.start < 0 /\ Magnitude(Cur.start) <= L /\ Cur.end = isize_max_value) =>
        /\ pc # "panic"
        /\ pc = "done" => Toks(handle) = Indices(L - Magnitude(Cur.start), L - 1)

\* range -2: on six tokens is done with two tokens emitted
C7_Witness ==
    /\ pc = "done" /\ Cur.start = 0 - 2 /\ Cur.end = isize_max_value /\ L = 6
    /\ Len(handle) = 2

\* C8: no range descriptor and no line bring the selection to a panic.
C8_NoPanic == pc # "panic"

\* C9: every token written before the last one is written with has_more = true,
\* and the last token of a finished non-empty selection with has_more = false.
C9_Separator ==
    /\ \A n \in 1..(Len(handle) - 1) : handle[n].has_more
    /\ (pc = "done" /\ handle # <<>>) => ~handle[Len(handle)].has_more

\* range 1:2 on four tokens is done: two tokens, the last one without a
\* separator although the source has more tokens
C9_Witness ==
    /\ pc = "done" /\ Cur.start = 1 /\ Cur.end = 2 /\ L = 4
    /\ Len(handle) = 2 /\ handle[1].has_more /\ ~handle[2].has_more

\* C10: when the ranges a:b and b:a, with 0 <= min(a, b) and max(a, b) < L,
\* have both been printed from the same line, the second selection is the
\* exact reverse of the first and both have max(a, b) - min(a, b) + 1 tokens.
C10_RoundTrip ==
    (c = 2 /\ pc = "done"
        /\ choices[2].start = choices[1].end /\ choices[2].end = choices[1].start
        /\ 0 <= Smaller(choices[1].start, choices[1].end)
        /\ Larger(choices[1].start, choices[1].end) < L) =>
        /\ Toks(handle) = Reverse(Toks(written[1]))
        /\ Len(handle) = Larger(choices[1].start, choices[1].end)
                         - Smaller(choices[1].start, choices[1].end) + 1

\* 1:3 then 3:1 on four tokens: both selections are done, three tokens each
C10_Witness ==
    /\ c = 2 /\ pc = "done" /\ L = 4
    /\ choices[1].start = 1 /\ choices[1].end = 3
    /\ choices[2].start = 3 /\ choices[2].end = 1
    /\ Len(handle) = 3 /\ Len(written[1]) = 3

\* C11: a single index N (start = end = N) never aborts when it is in bounds
\* or beyond the end; when it is done it has emitted exactly one token, with
\* has_more = false: the one at index N if 0 <= N < L, the one at index
\* L - |N| if N < 0 and |N| <= L; and it emits nothing at all when N >= L.
C11_SingleIndex ==
    (Cur.start = Cur.end /\ Magnitude(Smaller(Cur.start, 0)) <= L) =>
        /\ pc # "panic"
        /\ Cur.start >= L => handle = <<>>
        /\ (pc = "done" /\ Cur.start < L) =>
              handle = <<[tok |-> line[Resolved(Cur.start) + 1], has_more |-> FALSE]>>

\* index -2 on four tokens is done with one token emitted
C11_Witness ==
    /\ pc = "done" /\ Cur.start = 0 - 2 /\ Cur.end = 0 - 2 /\ L = 4
    /\ Len(handle) = 1

\* C12: the range N:, N >= 0, with the unbounded end, never aborts and, when
\* it is done, has emitted every token from index N through the last one, in
\* order; 0: emits the whole line.
C12_OpenEnd ==
    (Cur.start >= 0 /\ Cur.end = isize_max_value) =>
        /\ pc # "panic"
        /\ pc = "done" =>
              /\ Toks(handle) = Indices(Cur.start, L - 1)
              /\ Cur.start = 0 => Toks(handle) = line

\* range 2: on four tokens is done with two tokens emitted
C12_Witness ==
    /\ pc = "done" /\ Cur.start = 2 /\ Cur.end = isize_max_value /\ L = 4
    /\ Len(handle) = 2

\* the flags as the spec derives them from the original signed values
FlagReversed == Cur.end < Cur.start
FlagNegative == Cur.start < 0 \/ Cur.end < 0

\* where each strategy is
ForwardPcs == {"loop"}
ReversePcs == {"reverse", "rev_collect", "rev_emit"}
NegativePcs == {"negative", "neg_asc", "neg_desc"}

\* C13: the dispatch starts exactly one strategy: the reverse strategy iff
\* reversed and not negative_index, the negative-indexed strategy iff
\* negative_index (whatever reversed is), the forward strategy otherwise; and
\* no strategy ever runs for a range with other flags.
C13_Dispatch ==
    /\ [][pc = "generic" =>
            /\ pc' \in {"reverse", "negative", "loop"}
            /\ pc' = "reverse" <=> (FlagReversed /\ ~FlagNegative)
            /\ pc' = "negative" <=> FlagNegative
            /\ pc' = "loop" <=> (~FlagReversed /\ ~FlagNegative)]_vars
    /\ [](pc \in ReversePcs => (FlagReversed /\ ~FlagNegative))
    /\ [](pc \in NegativePcs => FlagNegative)
    /\ [](pc \in ForwardPcs => (~FlagReversed /\ ~FlagNegative))

\* range -1:-3, reversed and negative, is in the negative-indexed strategy
C13_Witness ==
    /\ pc = "neg_desc" /\ Cur.start = 0 - 1 /\ Cur.end = 0 - 3
    /\ Cur.reversed /\ Cur.negative_index

\* C14: for a range with 0 <= end < start the stack never holds more than
\* start - end + 1 tokens, holds exactly the tokens at indices end, end+1, ...
\* (none beyond start), and the source has never yielded a token beyond
\* index start.
C14_ReverseBuffer ==
    (0 <= Cur.end /\ Cur.end < Cur.start) =>
        /\ Len(stack) <= Cur.start - Cur.end + 1
        /\ \A n \in 1..Len(stack) : Cur.end + n <= L /\ stack[n] = line[Cur.end + n]
        /\ Cur.end + Len(stack) - 1 <= Cur.start
        /\ iter <= Cur.start + 1

\* range 2:1 on six tokens: the window is full with two tokens, three tokens
\* of the source are left unread
C14_Witness ==
    /\ pc = "rev_emit" /\ Cur.start = 2 /\ Cur.end = 1 /\ L = 6
    /\ Len(stack) = 2 /\ iter = 3

\* C15: every run of print_choice ends: it reaches "done" or the panic of
\* get_negative_start_end, and it reaches "done" whenever no negative bound
\* has a magnitude above L.
C15_Termination ==
    /\ <>(pc = "done" \/ pc = "panic")
    /\ (~FlagNegative \/ MagnitudesFit) => <>(pc = "done")

\* the open range 0: on six tokens is done with all six emitted
C15_Witness ==
    /\ pc = "done" /\ Cur.start = 0 /\ Cur.end = isize_max_value /\ L = 6
    /\ Len(handle) = 6

=============================================================================
